---- MODULE Spec2Model ----
(***************************************************************************)
(* Weather-data collection pipeline of okrayum/Tobi-Capstone-Project:      *)
(*   - WeatherDataCollector   (src/weather_data_collector.py)              *)
(*   - WeatherDatabase        (src/weather_database.py)                    *)
(*   - WeatherCollectionOrchestrator (src/weather_collector.py)            *)
(*   - ProcessingScheduler    (src/weatherdataprocessor.py)                *)
(*   - WeatherProcessingPipeline, DataQualityMonitor                       *)
(*                            (src/weatherdataprocessor.py)                *)
(* The specifications of the module share its variables: SpecClient (one   *)
(* collector instance serving a sequence of get_current_weather calls),    *)
(* SpecRace (two threads calling one collector), SpecCollect (the          *)
(* orchestrator writing readings and the audit log), SpecStore and         *)
(* SpecStoreFair (the collector's and the pipeline's units of work on one  *)
(* database file), SpecAlerts (check_quality_alerts) and SpecSched (the    *)
(* two background scheduler loops over the `schedule` registry).           *)
(* Time is counted in whole seconds.                                       *)
(***************************************************************************)
EXTENDS Integers, Sequences, FiniteSets, TLC

VARIABLES
    \* ---- WeatherDataCollector ----
    now,                \* time.time(), seconds
    last_request_time,  \* self.last_request_time
    cpc,                \* position of the caller inside get_current_weather
    attempt,            \* loop variable of _make_api_request
    events,             \* what the current call did: requests, responses, sleeps
    raw_data,           \* value returned by _make_api_request
    result,             \* value returned by get_current_weather
    calls,              \* get_current_weather calls begun so far
    prevSend,           \* time of the most recent session.get, -1 before the first
    lastGap,            \* seconds between the two most recent session.get, -1 if < 2
    \* ---- WeatherDatabase ----
    locations,          \* table locations, in rowid order
    weather_readings,   \* table weather_readings, in rowid order
    collection_log,     \* table collection_log, in rowid order
    \* ---- WeatherCollectionOrchestrator.collect_all_locations ----
    opc,                \* "idle", or "run" inside the loop over the locations
    todo,               \* locations of the running loop not yet attempted
    raised,             \* the last collect_all_locations call raised to its caller
    attempts,           \* collect_for_location calls made so far
    last,               \* the last collect_for_location call: what came in, what it did
    run,                \* the last collect_all_locations call: counts since it began
    added,              \* the add_location call just made: what it met, what it did
    \* ---- the `schedule` registry and the two scheduler objects ----
    jobs,               \* every Job object created by schedule.every(...).do(...)
    registry,           \* schedule.default_scheduler.jobs, as indices into jobs
    dueJobs,            \* registered jobs whose next_run has been reached
    threads,            \* the run_scheduler threads started so far
    is_running,         \* self.is_running of each scheduler object
    thread_ref,         \* self.collection_thread / self.scheduler_thread, 0 for None
    mpc,                \* position of the main thread inside start / stop
    stopReturned,       \* stop has returned and start was not called since
    immediate_ran,      \* the jobs tagged 'immediate' of which a run has begun
    \* ---- SQLite connections of the collector and of the pipeline ----
    conn,               \* per actor: the connection it holds and its open transaction
    writeLock,          \* the actor holding the database's write lock, or "free"
    derived,            \* the derived tables, as committed in the database file
    spc,                \* position of the collector inside its store operations
    sop,                \* the last operation run through get_connection
    ppc,                \* position of the pipeline inside process_recent_data
    prun,               \* the last finished process_recent_data run
    \* ---- DataQualityMonitor ----
    quality_report,     \* the report handed to check_quality_alerts
    alerts,             \* what check_quality_alerts returned
    apc,                \* position of the caller of check_quality_alerts
    \* ---- two threads calling one WeatherDataCollector ----
    tpc,                \* per thread: position inside its call, wake-up time
    sends,              \* times of the session.get calls of the threads, in order
    \* ---- WeatherProcessingPipeline.process_recent_data, stage by stage ----
    pipe,               \* the current or last run: position, stages begun, result
    \* ---- create_derived_features ----
    enhanced,           \* the row of enhanced_df computed last
    \* ---- assess_data_quality, gap detection ----
    gap_report          \* the frame's index and what the gap detection did with it

clientVars == <<now, last_request_time, cpc, attempt, events, raw_data, result,
                calls, prevSend, lastGap>>

dbVars == <<locations, weather_readings, collection_log>>

collectVars == <<opc, todo, raised, attempts, last, run, added>>

schedVars == <<jobs, registry, dueJobs, threads, is_running, thread_ref, mpc,
               stopReturned, immediate_ran>>

storeVars == <<conn, writeLock, derived, spc, sop, ppc, prun>>

alertVars == <<quality_report, alerts, apc>>

raceVars == <<tpc, sends>>

pipeVars == <<pipe>>

featureVars == <<enhanced>>

gapVars == <<gap_report>>

vars == <<clientVars, dbVars, collectVars, schedVars, storeVars, alertVars,
          raceVars, pipeVars, featureVars, gapVars>>

nonClientVars == <<dbVars, collectVars, schedVars, storeVars, alertVars, raceVars,
                   pipeVars, featureVars, gapVars>>

nonCollectVars == <<clientVars, schedVars, storeVars, alertVars, raceVars,
                    pipeVars, featureVars, gapVars>>

nonSchedVars == <<clientVars, dbVars, collectVars, storeVars, alertVars, raceVars,
                  pipeVars, featureVars, gapVars>>

nonStoreVars == <<clientVars, locations, collectVars, schedVars, alertVars,
                  raceVars, pipeVars, featureVars, gapVars>>

nonAlertVars == <<clientVars, dbVars, collectVars, schedVars, storeVars, raceVars,
                  pipeVars, featureVars, gapVars>>

nonRaceVars == <<cpc, attempt, events, raw_data, result, calls, prevSend, lastGap,
                 dbVars, collectVars, schedVars, storeVars, alertVars, pipeVars,
                 featureVars, gapVars>>

nonPipeVars == <<clientVars, dbVars, collectVars, schedVars, storeVars, alertVars,
                 raceVars, featureVars, gapVars>>

nonFeatureVars == <<clientVars, dbVars, collectVars, schedVars, storeVars,
                    alertVars, raceVars, pipeVars, gapVars>>

nonGapVars == <<clientVars, dbVars, collectVars, schedVars, storeVars,
                alertVars, raceVars, pipeVars, featureVars>>

-----------------------------------------------------------------------------
(* Bounds of the model *)

MaxCalls == 2
MaxLatency == 1
MaxIdle == 1
MaxLocations == 2
MaxAttempts == 2
MaxThreads == 2
MaxJobs == 5
MaxStores == 2
MaxAnalysisTables == 1
MaxCallers == 2
MaxTicks == 2
MaxRuns == 2

\* Rows of the frame handed to assess_data_quality, and the latest timestamp
\* among them (in units of the collection interval).
MaxReadings == 4

MaxTime == 6

-----------------------------------------------------------------------------
(* WeatherDataCollector *)

min_request_interval == 1

max_retries == 3

retry_delays == <<1, 2, 4>>

RateLimitCooldown == 60

\* Values of main.temp the provider may send (degrees Celsius).
Temps == {-51, -50, 20, 60, 61, 1000}

\* Values of main.humidity the provider may send, in tenths of a percent, so
\* that int() has something to truncate.
RawHums == {-10, -9, 500, 1009, 1010, 1500}

\* int(x) of Python for x given in tenths: truncation toward zero.
PyInt(tenths) == IF tenths >= 0 THEN tenths \div 10 ELSE -((-tenths) \div 10)

None == [tag |-> "None"]

Raised == [tag |-> "raise"]

Body(t, h) == [kind |-> "ok", temp |-> t, hum |-> h]

\* JSON bodies of a 200 response: complete bodies (an unremarkable one, 20
\* degrees and 50.0 percent, and those differing from it in one field), a body
\* lacking a required key, a body whose "weather" list is empty, and the empty
\* object.
Bodies ==
    {Body(t, 500) : t \in Temps} \cup {Body(20, h) : h \in RawHums}
        \cup {[kind |-> "nokey"], [kind |-> "noweather"], [kind |-> "empty"]}

\* The range checks of _validate_and_clean_current_weather.
TemperatureInRange(t) == -50 <= t /\ t <= 60

HumidityInRangeNoUpper(h) == 0 <= h

HumidityInRange(h) == 0 <= h /\ h <= 100

validate_and_clean_current_weather(body) ==
    IF body.kind = "nokey" THEN None                \* KeyError is caught
    ELSE IF body.kind = "noweather" THEN Raised     \* IndexError is not
    ELSE LET cleaned == [tag |-> "reading",
                         temperature |-> body.temp,
                         humidity |-> PyInt(body.hum)]
         IN  IF ~TemperatureInRange(cleaned.temperature) THEN None
             ELSE IF ~HumidityInRange(cleaned.humidity) THEN None
             ELSE cleaned

\* `if raw_data:` is false for None and for the empty object.
Truthy(raw) == raw # None /\ raw # [kind |-> "empty"]

get_current_weather_result(raw) ==
    IF Truthy(raw) THEN validate_and_clean_current_weather(raw) ELSE None

Req == <<"req", 0>>
Resp(code) == <<"resp", code>>
Exc == <<"exc", 0>>
Sleep(d) == <<"sleep", d>>

\* get_current_weather is entered, `idle` seconds after the previous call
\* returned.
Call(idle) ==
    /\ cpc = "idle"
    /\ calls < MaxCalls
    /\ calls' = calls + 1
    /\ now' = now + idle
    /\ cpc' = "limit"
    /\ events' = <<>>
    /\ raw_data' = None
    /\ result' = None
    /\ UNCHANGED <<last_request_time, attempt, prevSend, lastGap>>
    /\ UNCHANGED nonClientVars

\* _respect_rate_limit, called once on entry of _make_api_request.
RateLimitSleep(since) ==
    IF since < min_request_interval THEN min_request_interval - since ELSE 0

respect_rate_limit ==
    /\ cpc = "limit"
    /\ LET time_since_last == now - last_request_time
           sleep_time == RateLimitSleep(time_since_last)
       IN  /\ now' = now + sleep_time
           /\ events' = IF sleep_time > 0 THEN <<Sleep(sleep_time)>> ELSE <<>>
    /\ last_request_time' = now'
    /\ attempt' = 0
    /\ cpc' = "send"
    /\ UNCHANGED <<raw_data, result, calls, prevSend, lastGap>>
    /\ UNCHANGED nonClientVars

\* self.session.get(url, ...) goes out.
SendRequest ==
    /\ cpc = "send"
    /\ events' = Append(events, Req)
    /\ lastGap' = IF prevSend < 0 THEN -1 ELSE now - prevSend
    /\ prevSend' = now
    /\ cpc' = "recv"
    /\ UNCHANGED <<now, last_request_time, attempt, raw_data, result, calls>>
    /\ UNCHANGED nonClientVars

\* for attempt in range(max_retries): the next iteration, or the fall through
\* to `return None` after the loop.
NextAttemptSame(a) == a

NextAttempt(a) == a + 1

LoopOn(a, t, evs) ==
    /\ attempt' = NextAttempt(a)
    /\ now' = t
    /\ events' = evs
    /\ IF NextAttempt(a) < max_retries
          THEN cpc' = "send" /\ UNCHANGED raw_data
          ELSE cpc' = "ret" /\ raw_data' = None

BackoffFirstDelayAndLoop(t, evs) ==
    IF attempt < max_retries - 1
       THEN LoopOn(attempt, t + retry_delays[1], Append(evs, Sleep(retry_delays[1])))
       ELSE LoopOn(attempt, t, evs)

\* The backoff at the end of an iteration that did not return or continue.
BackoffAndLoop(t, evs) ==
    IF attempt < max_retries - 1
       THEN LoopOn(attempt, t + retry_delays[attempt + 1],
                   Append(evs, Sleep(retry_delays[attempt + 1])))
       ELSE LoopOn(attempt, t, evs)

Unauthorized401AsOther(t, evs) == BackoffAndLoop(t, evs)

Unauthorized401(t, evs) ==
    /\ raw_data' = None
    /\ cpc' = "ret"
    /\ now' = t
    /\ events' = evs
    /\ UNCHANGED attempt

Receive200(latency, body) ==
    /\ cpc = "recv"
    /\ raw_data' = body
    /\ cpc' = "ret"
    /\ now' = now + latency
    /\ events' = Append(events, Resp(200))
    /\ UNCHANGED <<last_request_time, attempt, result, calls, prevSend, lastGap>>
    /\ UNCHANGED nonClientVars

\* Two ways of getting the 429 branch wrong: falling into the backoff after the
\* cooldown, and retrying without the cooldown.
Receive429WithBackoff(latency) ==
    /\ cpc = "recv"
    /\ BackoffAndLoop(now + latency + RateLimitCooldown,
                      events \o <<Resp(429), Sleep(RateLimitCooldown)>>)
    /\ UNCHANGED <<last_request_time, result, calls, prevSend, lastGap>>
    /\ UNCHANGED nonClientVars

Receive429NoCooldown(latency) ==
    /\ cpc = "recv"
    /\ LoopOn(attempt, now + latency, Append(events, Resp(429)))
    /\ UNCHANGED <<last_request_time, result, calls, prevSend, lastGap>>
    /\ UNCHANGED nonClientVars

\* status 429: time.sleep(60); continue
Receive429(latency) ==
    /\ cpc = "recv"
    /\ LoopOn(attempt, now + latency + RateLimitCooldown,
              events \o <<Resp(429), Sleep(RateLimitCooldown)>>)
    /\ UNCHANGED <<last_request_time, result, calls, prevSend, lastGap>>
    /\ UNCHANGED nonClientVars

Receive401(latency) ==
    /\ cpc = "recv"
    /\ Unauthorized401(now + latency, Append(events, Resp(401)))
    /\ UNCHANGED <<last_request_time, result, calls, prevSend, lastGap>>
    /\ UNCHANGED nonClientVars

ReceiveOther(latency) ==
    /\ cpc = "recv"
    /\ BackoffAndLoop(now + latency, Append(events, Resp(500)))
    /\ UNCHANGED <<last_request_time, result, calls, prevSend, lastGap>>
    /\ UNCHANGED nonClientVars

\* requests.exceptions.RequestException (connection error, timeout).
ReceiveException(latency) ==
    /\ cpc = "recv"
    /\ BackoffAndLoop(now + latency, Append(events, Exc))
    /\ UNCHANGED <<last_request_time, result, calls, prevSend, lastGap>>
    /\ UNCHANGED nonClientVars

\* _make_api_request has returned raw_data; get_current_weather finishes.
Return ==
    /\ cpc = "ret"
    /\ result' = get_current_weather_result(raw_data)
    /\ cpc' = "idle"
    /\ UNCHANGED <<now, last_request_time, attempt, events, raw_data, calls,
                   prevSend, lastGap>>
    /\ UNCHANGED nonClientVars

ClientInit ==
    /\ now = min_request_interval   \* any time.time() >= the interval past 0
    /\ last_request_time = 0
    /\ cpc = "idle"
    /\ attempt = 0
    /\ events = <<>>
    /\ raw_data = None
    /\ result = None
    /\ calls = 0
    /\ prevSend = -1
    /\ lastGap = -1

ClientNext ==
    \/ \E idle \in 0..MaxIdle : Call(idle)
    \/ respect_rate_limit
    \/ SendRequest
    \/ \E l \in 0..MaxLatency, b \in Bodies : Receive200(l, b)
    \/ \E l \in 0..MaxLatency : Receive429(l)
    \/ \E l \in 0..MaxLatency : Receive401(l)
    \/ \E l \in 0..MaxLatency : ReceiveOther(l)
    \/ \E l \in 0..MaxLatency : ReceiveException(l)
    \/ Return

-----------------------------------------------------------------------------
(* WeatherDatabase *)

\* The (city, country) pairs the callers register.
Places == {<<"Paris", "FR">>, <<"Paris", "US">>, <<"Austin", "US">>}

DbInit ==
    /\ locations = <<>>
    /\ weather_readings = <<>>
    /\ collection_log = <<>>

InsertLocation(rows, city, country) ==
    Append(rows, [id |-> Len(rows) + 1, city |-> city,
                  country |-> country, is_active |-> TRUE])

\* INSERT OR IGNORE INTO locations under UNIQUE(city, country); the id is the
\* AUTOINCREMENT rowid.
InsertOrIgnoreLocation(rows, city, country) ==
    IF \E i \in DOMAIN rows : rows[i].city = city /\ rows[i].country = country
       THEN rows
       ELSE Append(rows, [id |-> Len(rows) + 1, city |-> city,
                          country |-> country, is_active |-> TRUE])

\* store_weather_reading: one unit of work; on sqlite3.Error (ok = FALSE) the
\* unit is rolled back and False is returned.
store_weather_reading(rows, weather_data, ok) ==
    IF ok THEN [rows |-> Append(rows, weather_data), ret |-> TRUE]
          ELSE [rows |-> rows, ret |-> FALSE]

\* log_collection_attempt: one unit of work with no except clause of its own;
\* on a failure (ok = FALSE) it is rolled back and the exception propagates.
log_collection_attempt(rows, location_id, status, ok) ==
    IF ok THEN [rows |-> Append(rows, [location_id |-> location_id,
                                       status |-> status]),
                raised |-> FALSE]
          ELSE [rows |-> rows, raised |-> TRUE]

Reverse(seq) == [i \in 1..Len(seq) |-> seq[Len(seq) + 1 - i]]

\* get_recent_readings with a window wide enough to hold every row: the rows
\* of the place, newest first.
get_recent_readings(city, country) ==
    Reverse(SelectSeq(weather_readings,
                      LAMBDA r : r.city = city /\ r.country = country))

-----------------------------------------------------------------------------
(* WeatherCollectionOrchestrator *)

\* SELECT id, city, country FROM locations WHERE is_active = 1
get_active_locations == SelectSeq(locations, LAMBDA l : l.is_active)

\* What _make_api_request hands to get_current_weather in the orchestrator's
\* runs: nothing, two acceptable bodies, the two out-of-range bodies
\* (temperature 1000, humidity 150) and a body whose validation raises.
RawData ==
    {None, Body(20, 500), Body(20, 1009),
     Body(1000, 500), Body(20, 1500), [kind |-> "noweather"]}

\* The row written for a reading returned by the collector.
ReadingRow(location, weather_data) ==
    [city |-> location.city, country |-> location.country,
     temperature |-> weather_data.temperature,
     humidity |-> weather_data.humidity]

NoLogForNoData(log, location_id, ok) == [rows |-> log, raised |-> FALSE]

LogApiError(log, location_id, ok) ==
    log_collection_attempt(log, location_id, "api_error", ok)

\* The try block of collect_for_location.
CollectTry(readings, log, location, weather_data, storeOk, logOk) ==
    IF weather_data = Raised
       THEN [readings |-> readings, log |-> log, raised |-> TRUE, stored |-> FALSE]
    ELSE IF weather_data # None
       THEN LET st == store_weather_reading(
                          readings, ReadingRow(location, weather_data), storeOk)
                status == IF st.ret THEN "success" ELSE "storage_error"
                lg == log_collection_attempt(log, location.id, status, logOk)
            IN  [readings |-> st.rows, log |-> lg.rows, raised |-> lg.raised,
                 stored |-> st.ret]
    ELSE LET lg == LogApiError(log, location.id, logOk)
         IN  [readings |-> readings, log |-> lg.rows, raised |-> lg.raised,
              stored |-> FALSE]

collect_for_location_finally(readings, log, location, weather_data, storeOk, logOk, handlerOk) ==
    LET t == CollectTry(readings, log, location, weather_data, storeOk, logOk)
        h == log_collection_attempt(t.log, location.id, "error", handlerOk)
    IN  [t EXCEPT !.log = h.rows, !.raised = h.raised]

\* collect_for_location: the try block, then `except Exception` writing the
\* 'error' row; a failure of that write leaves the handler as an exception.
collect_for_location(readings, log, location, weather_data, storeOk, logOk, handlerOk) ==
    LET t == CollectTry(readings, log, location, weather_data, storeOk, logOk)
    IN  IF t.raised
           THEN LET h == log_collection_attempt(t.log, location.id, "error", handlerOk)
                IN  [t EXCEPT !.log = h.rows, !.raised = h.raised]
           ELSE t

NoCall == [raw |-> None, stored |-> FALSE, raised |-> FALSE, fault |-> FALSE]

NoAdd == [called |-> FALSE, present |-> FALSE, ok |-> TRUE, ret |-> TRUE,
          unchanged |-> TRUE]

\* The rows of the locations table for a (city, country) pair.
RowsOf(rows, city, country) ==
    {i \in DOMAIN rows : rows[i].city = city /\ rows[i].country = country}

NoRun == [state |-> "none", n |-> 0, log0 |-> 0, readings0 |-> 0,
          nodata |-> 0, valid |-> 0, fault |-> FALSE]

CollectInit ==
    /\ opc = "idle"
    /\ todo = <<>>
    /\ raised = FALSE
    /\ attempts = 0
    /\ last = NoCall
    /\ run = NoRun
    /\ added = NoAdd

\* add_location: one unit of work through get_connection; `return True` in
\* the with block, `except sqlite3.Error: return False` around it (ok = FALSE:
\* the connection, the INSERT or the commit failed and the unit was rolled
\* back).
add_location(city, country, ok) ==
    /\ opc = "idle"
    /\ LET rows == IF ok THEN InsertOrIgnoreLocation(locations, city, country)
                         ELSE locations
       IN  /\ Len(rows) <= MaxLocations
           /\ locations' = rows
           /\ added' = [called |-> TRUE,
                        present |-> RowsOf(locations, city, country) # {},
                        ok |-> ok, ret |-> ok, unchanged |-> rows = locations]
    /\ UNCHANGED <<weather_readings, collection_log, opc, todo, raised,
                   attempts, last, run>>
    /\ UNCHANGED nonCollectVars

\* collect_all_locations up to the loop: get_active_locations, which has no
\* except clause (listOk = FALSE: the SELECT or the connection failed).
StartCollectAll(listOk) ==
    /\ opc = "idle"
    /\ attempts < MaxAttempts
    /\ LET found == get_active_locations
       IN  /\ todo' = IF listOk THEN found ELSE <<>>
           /\ opc' = IF listOk /\ found # <<>> THEN "run" ELSE "idle"
           /\ raised' = ~listOk
           /\ run' = [NoRun EXCEPT
                        !.state = IF ~listOk THEN "raised"
                                  ELSE IF found = <<>> THEN "done" ELSE "running",
                        !.n = IF listOk THEN Len(found) ELSE 0,
                        !.log0 = Len(collection_log),
                        !.readings0 = Len(weather_readings)]
    /\ added' = NoAdd
    /\ UNCHANGED <<dbVars, attempts, last>>
    /\ UNCHANGED nonCollectVars

\* One iteration of the loop: collect_for_location(location); time.sleep(1).
CollectLocation(raw, storeOk, logOk, handlerOk) ==
    /\ opc = "run"
    /\ todo # <<>>
    /\ attempts < MaxAttempts
    /\ LET location == Head(todo)
           weather_data == get_current_weather_result(raw)
           r == collect_for_location(weather_readings, collection_log, location,
                                     weather_data, storeOk, logOk, handlerOk)
           \* a store or log write of this call failed
           fault == \/ (weather_data \notin {None, Raised} /\ ~storeOk)
                    \/ (weather_data # Raised /\ ~logOk)
                    \/ (weather_data = Raised /\ ~handlerOk)
       IN  /\ weather_readings' = r.readings
           /\ collection_log' = r.log
           /\ raised' = r.raised
           /\ last' = [raw |-> raw, stored |-> r.stored, raised |-> r.raised,
                       fault |-> fault]
           /\ todo' = IF r.raised THEN <<>> ELSE Tail(todo)
           /\ opc' = IF r.raised \/ Tail(todo) = <<>> THEN "idle" ELSE "run"
           /\ run' = [run EXCEPT
                        !.state = IF r.raised THEN "raised"
                                  ELSE IF Tail(todo) = <<>> THEN "done"
                                  ELSE "running",
                        !.nodata = @ + (IF weather_data = None THEN 1 ELSE 0),
                        !.valid = @ + (IF weather_data \notin {None, Raised}
                                          THEN 1 ELSE 0),
                        !.fault = @ \/ fault]
    /\ attempts' = attempts + 1
    /\ UNCHANGED <<locations, added>>
    /\ UNCHANGED nonCollectVars

CollectNext ==
    \/ \E p \in Places, ok \in BOOLEAN : add_location(p[1], p[2], ok)
    \/ \E listOk \in BOOLEAN : StartCollectAll(listOk)
    \/ \E raw \in RawData, storeOk, logOk, handlerOk \in BOOLEAN :
           CollectLocation(raw, storeOk, logOk, handlerOk)

-----------------------------------------------------------------------------
(* The scheduler loops: WeatherCollectionOrchestrator.start_scheduled_collection
   / stop_collection and ProcessingScheduler.start_scheduled_processing /
   stop_scheduled_processing.  Both register their jobs in the one module-level
   registry of `schedule` and both loops call schedule.run_pending() on it.
   Whether a job is due is abstracted from the clock: a registered job becomes
   due at some moment (BecomeDue) and stops being due when a run of it ends. *)

Owners == {"collection", "processing"}

\* The module of each run_scheduler and whether that module imports `time`:
\* weather_collector.py does (line 5), weatherdataprocessor.py does not.
ImportsTime(owner) == owner = "collection"

Job(func, tag) == [func |-> func, tag |-> tag]

CollectionJobs ==
    <<Job("collect_all_locations", ""), Job("collect_all_locations", "immediate")>>

ProcessingJobs ==
    <<Job("_process_recent_data", ""), Job("_full_quality_check", ""),
      Job("_daily_maintenance", "")>>

\* A thread is at "loop" (about to test `while self.is_running`, asleep before
\* it when it has been round the loop), in "pass" (inside run_pending, between
\* jobs), in "task" (inside a job function) or "exited".
NewThread(owner) == [owner |-> owner, pc |-> "loop", pending |-> {}, job |-> 0]

Idle == [op |-> "idle"]

SchedInit ==
    /\ jobs = <<>>
    /\ registry = {}
    /\ dueJobs = {}
    /\ threads = <<>>
    /\ is_running = [o \in Owners |-> FALSE]
    /\ thread_ref = [o \in Owners |-> 0]
    /\ mpc = Idle
    /\ stopReturned = [o \in Owners |-> FALSE]
    /\ immediate_ran = {}

NewIds(n) == (Len(jobs) + 1)..(Len(jobs) + n)

\* schedule.every(...).do(...) for each job, self.is_running = True, a new
\* Thread(target=run_scheduler) stored in the object and started.
Register(owner, newJobs) ==
    /\ Len(threads) < MaxThreads
    /\ Len(jobs) + Len(newJobs) <= MaxJobs
    /\ jobs' = jobs \o newJobs
    /\ registry' = registry \cup NewIds(Len(newJobs))
    /\ is_running' = [is_running EXCEPT ![owner] = TRUE]
    /\ threads' = Append(threads, NewThread(owner))
    /\ thread_ref' = [thread_ref EXCEPT ![owner] = Len(threads) + 1]
    /\ stopReturned' = [stopReturned EXCEPT ![owner] = FALSE]
    /\ UNCHANGED <<dueJobs, immediate_ran>>

\* start_scheduled_collection up to collection_thread.start().
start_scheduled_collection ==
    /\ mpc = Idle
    /\ Register("collection", CollectionJobs)
    /\ mpc' = [op |-> "clear_immediate", fresh |-> NewIds(Len(CollectionJobs))]
    /\ UNCHANGED nonSchedVars

\* schedule.clear(tag): the registry keeps the jobs that do not carry the tag.
ClearTag(tag) == {j \in registry : jobs[j].tag # tag}

\* schedule.clear(): del self.jobs[:]
ClearAll == {}

\* The last statement of start_scheduled_collection: schedule.clear('immediate').
ClearImmediate ==
    /\ mpc.op = "clear_immediate"
    /\ registry' = ClearTag("immediate")
    /\ dueJobs' = dueJobs \cap registry'
    /\ mpc' = Idle
    /\ UNCHANGED <<jobs, threads, is_running, thread_ref, stopReturned,
                   immediate_ran>>
    /\ UNCHANGED nonSchedVars

start_scheduled_processing ==
    /\ mpc = Idle
    /\ Register("processing", ProcessingJobs)
    /\ mpc' = Idle
    /\ UNCHANGED nonSchedVars

\* stop_collection / stop_scheduled_processing up to the join: the flag is
\* cleared, schedule.clear() empties the registry, and the caller joins the
\* thread the object refers to, if any.
Stop(owner) ==
    /\ mpc = Idle
    /\ is_running' = [is_running EXCEPT ![owner] = FALSE]
    /\ registry' = ClearAll
    /\ dueJobs' = {}
    /\ IF thread_ref[owner] # 0
          THEN mpc' = [op |-> "join", owner |-> owner] /\ UNCHANGED stopReturned
          ELSE mpc' = Idle /\ stopReturned' = [stopReturned EXCEPT ![owner] = TRUE]
    /\ UNCHANGED <<jobs, threads, thread_ref, immediate_ran>>
    /\ UNCHANGED nonSchedVars

\* A thread that can still be alive when join(timeout=5) gives up: it is
\* inside a task.  (The collection loop sleeps 1 s between passes, less than
\* the timeout, and the processing loop never gets to sleep.)
CanOutlastJoin(t) == threads[t].pc = "task"

\* thread.join(timeout=5) returns, the thread having ended or the timeout
\* having elapsed, and stop returns.
JoinReturns ==
    /\ mpc.op = "join"
    /\ LET t == thread_ref[mpc.owner]
       IN  threads[t].pc = "exited" \/ CanOutlastJoin(t)
    /\ stopReturned' = [stopReturned EXCEPT ![mpc.owner] = TRUE]
    /\ mpc' = Idle
    /\ UNCHANGED <<jobs, registry, dueJobs, threads, is_running, thread_ref,
                   immediate_ran>>
    /\ UNCHANGED nonSchedVars

\* A processing thread that has been started and has not tested the flag yet
\* (it never comes back to the test: see AfterRunPending).
BeforeFirstPass(t) == threads[t].pc = "loop" /\ ~ImportsTime(threads[t].owner)

\* The clock reaches next_run of a registered job.  The jobs registered by a
\* start_scheduled_collection call that has not returned yet are at least a
\* minute away from their first run, and so is every job that is not due
\* when a thread has just been started.
BecomeDue(j) ==
    /\ j \in registry \ dueJobs
    /\ mpc.op = "clear_immediate" => j \notin mpc.fresh
    /\ \A t \in DOMAIN threads : ~BeforeFirstPass(t)
    /\ dueJobs' = dueJobs \cup {j}
    /\ UNCHANGED <<jobs, registry, threads, is_running, thread_ref, mpc, stopReturned,
                   immediate_ran>>
    /\ UNCHANGED nonSchedVars

\* schedule.run_pending(): the jobs to run are collected once, before the
\* first of them runs (sorted(job for job in self.jobs if job.should_run)).
RunnableJobs == dueJobs

\* After run_pending() the loop calls time.sleep and tests the flag again.  In
\* the processing loop the name `time` is not defined: time.sleep(60) raises
\* NameError, which nothing catches, and the thread ends after its first pass.
AfterRunPending(owner) == IF ImportsTime(owner) THEN "loop" ELSE "exited"

AfterPass(owner, pending) ==
    IF pending = {} THEN AfterRunPending(owner) ELSE "pass"

\* `while self.is_running:` and, if it holds, the start of run_pending().
LoopCheck(t) ==
    /\ threads[t].pc = "loop"
    /\ threads' = [threads EXCEPT ![t] =
                     IF is_running[threads[t].owner]
                        THEN [@ EXCEPT !.pc = AfterPass(threads[t].owner, RunnableJobs),
                                       !.pending = RunnableJobs]
                        ELSE [@ EXCEPT !.pc = "exited"]]
    /\ threads' # threads
    /\ UNCHANGED <<jobs, registry, dueJobs, is_running, thread_ref, mpc, stopReturned,
                   immediate_ran>>
    /\ UNCHANGED nonSchedVars

\* run_pending's loop runs the next collected job: job.run() calls job_func().
StartTask(t, j) ==
    /\ threads[t].pc = "pass"
    /\ j \in threads[t].pending
    /\ threads' = [threads EXCEPT ![t] =
                     [@ EXCEPT !.pc = "task", !.job = j, !.pending = @ \ {j}]]
    /\ immediate_ran' = IF jobs[j].tag = "immediate" THEN immediate_ran \cup {j}
                                                     ELSE immediate_ran
    /\ UNCHANGED <<jobs, registry, dueJobs, is_running, thread_ref, mpc, stopReturned>>
    /\ UNCHANGED nonSchedVars

\* job_func() returns; job.run() sets last_run and schedules the next run.
EndTask(t) ==
    /\ threads[t].pc = "task"
    /\ dueJobs' = dueJobs \ {threads[t].job}
    /\ threads' = [threads EXCEPT ![t] =
                     [@ EXCEPT !.pc = AfterPass(threads[t].owner, threads[t].pending),
                                !.job = 0]]
    /\ UNCHANGED <<jobs, registry, is_running, thread_ref, mpc, stopReturned,
                   immediate_ran>>
    /\ UNCHANGED nonSchedVars

\* collect_all_locations raises (a failed listing or audit-log write); nothing
\* in run_pending or run_scheduler catches it and the thread ends.
TaskRaises(t) ==
    /\ threads[t].pc = "task"
    /\ jobs[threads[t].job].func = "collect_all_locations"
    /\ threads' = [threads EXCEPT ![t] = [@ EXCEPT !.pc = "exited", !.job = 0,
                                                   !.pending = {}]]
    /\ UNCHANGED <<jobs, registry, dueJobs, is_running, thread_ref, mpc, stopReturned,
                   immediate_ran>>
    /\ UNCHANGED nonSchedVars

SchedNext ==
    \/ start_scheduled_collection
    \/ ClearImmediate
    \/ start_scheduled_processing
    \/ \E o \in Owners : Stop(o)
    \/ JoinReturns
    \/ \E j \in registry : BecomeDue(j)
    \/ \E t \in DOMAIN threads : LoopCheck(t)
    \/ \E t \in DOMAIN threads : \E j \in threads[t].pending : StartTask(t, j)
    \/ \E t \in DOMAIN threads : EndTask(t)
    \/ \E t \in DOMAIN threads : TaskRaises(t)

\* The steps of thread t that the interpreter takes whenever they are
\* possible: the flag test, the next collected job, the return of a task.
ThreadStep(t) ==
    /\ t \in DOMAIN threads
    /\ \/ LoopCheck(t)
       \/ \E j \in threads[t].pending : StartTask(t, j)
       \/ EndTask(t)

-----------------------------------------------------------------------------
(* The database file under two users: the collector thread, whose store
   operations go through WeatherDatabase.get_connection, and the processing
   pipeline, which connects on its own.  Every operation opens its own
   connection (sqlite3.connect, default timeout of 5 s on a locked database),
   so the two meet only at the lock of the database file: one connection at a
   time may hold uncommitted writes; a statement that needs the lock while the
   other connection holds it waits and, if the lock is not released in time,
   raises sqlite3.OperationalError.  A step of the model runs up to the next
   point where the lock is taken or given back. *)

Actors == {"collector", "pipeline"}

Closed == [open |-> FALSE, pending |-> <<>>]

\* The reading the collector stores in these runs.
StoreRows ==
    {[city |-> "Paris", country |-> "FR", temperature |-> 20, humidity |-> 50]}

StoreIdle ==
    [at |-> "idle", phase |-> "-", status |-> "", left |-> 0,
     before |-> <<>>, raised |-> FALSE]

NoOp ==
    [name |-> "none", failed |-> FALSE, ret |-> TRUE, raised |-> FALSE,
     unchanged |-> TRUE, appended |-> 0, connOpen |-> FALSE, lockHeld |-> FALSE]

\* The table an operation of the collector writes.
TargetTable(at) == IF at = "store" THEN weather_readings ELSE collection_log

\* An operation is entered: `with self.get_connection() as conn:` comes next.
StartOp(at, left, status) ==
    [at |-> at, phase |-> "connect", status |-> status,
     left |-> left, before |-> TargetTable(at), raised |-> FALSE]

\* store_weather_reading around its unit of work: `return True` inside the
\* with block, `except sqlite3.Error: return False` around it.
StoreOutcomeReraise(exc) == [ret |-> ~exc, raised |-> exc]

StoreOutcome(exc) == [ret |-> ~exc, raised |-> FALSE]

\* log_collection_attempt has no except clause.
LogOutcome(exc) == [ret |-> TRUE, raised |-> exc]

\* collect_all_locations goes to the next location, or returns.
NextLocation ==
    IF spc.left > 1 THEN StartOp("store", spc.left - 1, "") ELSE StoreIdle

AfterOpRetrying(exc) ==
    IF exc THEN StartOp(spc.at, spc.left, spc.status) ELSE NextLocation

\* Where the collector stands once the operation at spc.at has returned or
\* raised: collect_for_location logs the status of the store, runs its
\* exception handler when the log write raised, and lets an exception of the
\* handler's own log write go up through collect_all_locations.
AfterOp(exc) ==
    IF spc.at = "store"
       THEN IF StoreOutcome(exc).raised
               THEN StartOp("handler", spc.left, "error")
               ELSE StartOp("log", spc.left,
                            IF StoreOutcome(exc).ret THEN "success"
                                                     ELSE "storage_error")
    ELSE IF spc.at = "log"
       THEN IF LogOutcome(exc).raised THEN StartOp("handler", spc.left, "error")
                                      ELSE NextLocation
    ELSE IF LogOutcome(exc).raised THEN [StoreIdle EXCEPT !.raised = TRUE]
                                   ELSE NextLocation

\* What the operation that is ending did, for the record: whether its unit of
\* work met an error, what the caller got, whether the table is as it was when
\* the operation was entered, how many rows it holds beyond those it held
\* then (when it still begins with them), and what the operation still holds.
OpRecord(exc, after, connAfter, lockAfter) ==
    LET out == IF spc.at = "store" THEN StoreOutcome(exc) ELSE LogOutcome(exc)
    IN  [name |-> IF spc.at = "store" THEN "store_weather_reading"
                                      ELSE "log_collection_attempt",
         failed |-> exc, ret |-> out.ret, raised |-> out.raised,
         unchanged |-> after = spc.before,
         appended |-> IF /\ Len(after) >= Len(spc.before)
                         /\ SubSeq(after, 1, Len(spc.before)) = spc.before
                         THEN Len(after) - Len(spc.before) ELSE -1,
         connOpen |-> connAfter.open, lockHeld |-> lockAfter = "collector"]

\* collect_all_locations starts on n locations for which the client returns
\* a reading (while the two tables have room for their rows).
BeginBatch(n) ==
    /\ spc.at = "idle"
    /\ Len(weather_readings) + n <= MaxStores
    /\ Len(collection_log) + n <= MaxStores
    /\ spc' = StartOp("store", n, "")
    /\ UNCHANGED <<weather_readings, collection_log, conn, writeLock, derived,
                   sop, ppc, prun>>
    /\ UNCHANGED nonStoreVars

CloseLeaked(c) == c

\* conn.close()
CloseConnection(c) == Closed

\* conn.rollback(): the uncommitted writes of the connection are dropped.
RollbackConnection(c) == [c EXCEPT !.pending = <<>>]

\* The row the INSERT of the operation at spc.at carries (the readings of
\* these runs all belong to the location with id 1).
InsertedRow(r) ==
    IF spc.at = "store" THEN r ELSE [location_id |-> 1, status |-> spc.status]

\* The unit of work fails at the connect (nothing to roll back or close, the
\* call is before the try), or later: `except Exception: conn.rollback();
\* raise`, then `finally: conn.close()`; the operation ends.
CollectorFails(connected) ==
    /\ conn' = [conn EXCEPT !["collector"] =
                   IF connected THEN CloseConnection(RollbackConnection(@)) ELSE @]
    /\ writeLock' = IF writeLock = "collector" THEN "free" ELSE writeLock
    /\ sop' = OpRecord(TRUE, TargetTable(spc.at), conn'["collector"], writeLock')
    /\ spc' = AfterOp(TRUE)

\* get_connection up to the yield and the statement of the with block:
\* sqlite3.connect, then conn.execute(INSERT ...).  outcome is "ok" (the row
\* joins the open transaction, which takes the write lock), "connect" (the
\* connection cannot be made), "error" (a constraint or I/O error of the
\* INSERT) or "locked" (the other connection kept the lock for longer than
\* the timeout).
CollectorExecute(r, outcome) ==
    /\ spc.phase = "connect"
    /\ outcome = "ok" => writeLock \in {"free", "collector"}
    /\ outcome = "locked" => writeLock \notin {"free", "collector"}
    /\ IF outcome = "ok"
          THEN /\ conn' = [conn EXCEPT !["collector"] =
                              [open |-> TRUE, pending |-> <<InsertedRow(r)>>]]
               /\ writeLock' = "collector"
               /\ spc' = [spc EXCEPT !.phase = "commit"]
               /\ UNCHANGED sop
          ELSE CollectorFails(outcome # "connect")
    /\ UNCHANGED <<weather_readings, collection_log, derived, ppc, prun>>
    /\ UNCHANGED nonStoreVars

\* get_connection after the yield: conn.commit(), then `finally:
\* conn.close()`, and the operation returns; or the commit fails.
CollectorCommit(ok) ==
    /\ spc.phase = "commit"
    /\ IF ok
          THEN /\ weather_readings' =
                     IF spc.at = "store"
                        THEN weather_readings \o conn["collector"].pending
                        ELSE weather_readings
               /\ collection_log' =
                     IF spc.at = "store"
                        THEN collection_log
                        ELSE collection_log \o conn["collector"].pending
               /\ conn' = [conn EXCEPT !["collector"] = CloseConnection(@)]
               /\ writeLock' = "free"
               /\ sop' = OpRecord(FALSE,
                                  IF spc.at = "store" THEN weather_readings'
                                                      ELSE collection_log',
                                  conn'["collector"], writeLock')
               /\ spc' = AfterOp(FALSE)
          ELSE /\ CollectorFails(TRUE)
               /\ UNCHANGED <<weather_readings, collection_log>>
    /\ UNCHANGED <<derived, ppc, prun>>
    /\ UNCHANGED nonStoreVars

-----------------------------------------------------------------------------
(* WeatherProcessingPipeline.process_recent_data.  The processor is the object
   handed to the constructor; each of its stages either returns or raises.
   The frames the stages compute are kept as what they were computed from:
   Frame(name, raw) is the table `name` derived from the loaded readings raw. *)

Stages == <<"assess", "clean", "derive", "aggregate", "prepare">>

\* The keys of the dict prepare_analysis_datasets returns, in insertion order.
AnalysisDatasets == <<"timeseries", "daily", "city_comparison", "weather_conditions">>

AnalysisTables ==
    [i \in 1..MaxAnalysisTables |-> "analysis_" \o AnalysisDatasets[i]]

\* The tables _store_processed_data writes, in the order it writes them.
DerivedTables ==
    <<"processed_weather_data", "daily_weather_summary">> \o AnalysisTables

DerivedNames == {DerivedTables[i] : i \in DOMAIN DerivedTables}

Absent == [exists |-> FALSE, rows |-> <<>>]

EmptyTable == [exists |-> TRUE, rows |-> <<>>]

Frame(name, raw) == [name |-> name, computed_from |-> raw]

PipelineIdle ==
    [at |-> "idle", k |-> 0, raw |-> <<>>, before |-> <<>>]

\* The record of a finished run: what it returned, whether it left the derived
\* tables other than it found them and, for a run that returned True, what it
\* had loaded and the tables it left; whether it repeated the run before it
\* (both returned True, having loaded the same readings) and, if so, whether
\* it left the tables that run had left.
RunRecord(ret, raw, before, after) ==
    LET repeat == ret /\ prun.ret /\ prun.raw = raw
    IN  [ret |-> ret, changed |-> after # before,
         raw |-> IF ret THEN raw ELSE <<>>,
         after |-> IF ret THEN after ELSE <<>>,
         repeat |-> repeat,
         same |-> repeat => after = prun.after]

NoRunYet ==
    [ret |-> FALSE, changed |-> FALSE, raw |-> <<>>, after |-> <<>>,
     repeat |-> FALSE, same |-> TRUE]

\* process_recent_data returns ret; the run is put on record.
EndRun(ret, after) ==
    /\ prun' = RunRecord(ret, ppc.raw, ppc.before, after)
    /\ ppc' = PipelineIdle

\* process_recent_data up to the call of _store_processed_data:
\* load_data_from_db reads the window through a connection of its own, then
\* `if raw_data.empty: return False`, then the stages of the processor.  A
\* failure of the load or of a stage is caught by the except clause of
\* process_recent_data, like every failure below, and the run returns False.
PipelineLoad(ok, failed) ==
    /\ ppc.at = "idle"
    /\ (~ok \/ weather_readings = <<>>) => failed = 0
    /\ IF ok /\ weather_readings # <<>> /\ failed = 0
          THEN /\ ppc' = [at |-> "to_sql", k |-> 1, raw |-> weather_readings,
                          before |-> derived]
               /\ UNCHANGED prun
          ELSE /\ prun' = RunRecord(FALSE, <<>>, derived, derived)
               /\ UNCHANGED ppc
    /\ UNCHANGED <<weather_readings, collection_log, conn, writeLock, derived,
                   spc, sop>>
    /\ UNCHANGED nonStoreVars

TableKept(t) == t

\* DROP TABLE
TableAfterDrop(t) == Absent

\* _store_processed_data fails: `except Exception: conn.rollback(); raise`,
\* which undoes what the connection has not committed, then `finally:
\* conn.close()`; process_recent_data returns False from its except clause.
\* (A failure of the connect, which is before the try, ends the same way.)
PipelineFails(tables) ==
    /\ conn' = [conn EXCEPT !["pipeline"] = CloseConnection(RollbackConnection(@))]
    /\ writeLock' = IF writeLock = "pipeline" THEN "free" ELSE writeLock
    /\ derived' = tables
    /\ EndRun(FALSE, tables)

\* to_sql(name, conn, if_exists='replace') up to its INSERT (before the first
\* table: sqlite3.connect).  The table is dropped when it exists and created
\* anew; the connection has no open transaction here, so each of the two
\* statements is committed as it is executed (sqlite3 opens transactions
\* before INSERT, UPDATE and DELETE only).  Then the rows of the frame are
\* inserted in a transaction.  outcome is "ok", or names the statement that
\* failed, or is "locked" (the collector kept the lock for longer than the
\* timeout, at the first statement that needs it).
ToSqlInsert(outcome) ==
    /\ ppc.at = "to_sql"
    /\ outcome = "connect" => ppc.k = 1
    /\ outcome = "ok" => writeLock = "free"
    /\ outcome = "locked" => writeLock = "collector"
    /\ LET name == DerivedTables[ppc.k]
           dropped == [derived EXCEPT ![name] =
                          IF @.exists THEN TableAfterDrop(@) ELSE @]
           created == [dropped EXCEPT ![name] =
                          IF @.exists THEN @ ELSE EmptyTable]
       IN  IF outcome = "ok"
              THEN /\ derived' = created
                   /\ conn' = [conn EXCEPT !["pipeline"] =
                                  [open |-> TRUE,
                                   pending |-> <<Frame(name, ppc.raw)>>]]
                   /\ writeLock' = "pipeline"
                   /\ ppc' = [ppc EXCEPT !.at = "commit"]
                   /\ UNCHANGED prun
              ELSE PipelineFails(
                       IF outcome = "create" THEN dropped
                       ELSE IF outcome = "insert" THEN created
                       ELSE derived)
    /\ UNCHANGED <<weather_readings, collection_log, spc, sop>>
    /\ UNCHANGED nonStoreVars

\* to_sql: pandas commits the connection when the INSERT is done, before
\* to_sql returns.  After the last table _store_processed_data calls
\* conn.commit() itself, with nothing left to commit, closes the connection,
\* and process_recent_data returns True.
ToSqlCommit(ok) ==
    /\ ppc.at = "commit"
    /\ LET tables == [derived EXCEPT ![DerivedTables[ppc.k]].rows =
                         @ \o conn["pipeline"].pending]
       IN  IF ~ok THEN PipelineFails(derived)
           ELSE /\ derived' = tables
                /\ writeLock' = "free"
                /\ IF ppc.k < Len(DerivedTables)
                      THEN /\ conn' = [conn EXCEPT !["pipeline"].pending = <<>>]
                           /\ ppc' = [ppc EXCEPT !.at = "to_sql", !.k = @ + 1]
                           /\ UNCHANGED prun
                      ELSE /\ conn' = [conn EXCEPT !["pipeline"] = CloseConnection(@)]
                           /\ EndRun(TRUE, tables)
    /\ UNCHANGED <<weather_readings, collection_log, spc, sop>>
    /\ UNCHANGED nonStoreVars

StoreInit ==
    /\ conn = [a \in Actors |-> Closed]
    /\ writeLock = "free"
    /\ derived = [n \in DerivedNames |-> Absent]
    /\ spc = StoreIdle
    /\ sop = NoOp
    /\ ppc = PipelineIdle
    /\ prun = NoRunYet

StoreNext ==
    \/ \E n \in 1..MaxStores : BeginBatch(n)
    \/ \E r \in StoreRows, outcome \in {"ok", "connect", "error", "locked"} :
           CollectorExecute(r, outcome)
    \/ \E ok \in BOOLEAN : CollectorCommit(ok)
    \/ \E ok \in BOOLEAN, failed \in 0..Len(Stages) : PipelineLoad(ok, failed)
    \/ \E outcome \in {"ok", "connect", "drop", "create", "insert", "locked"} :
           ToSqlInsert(outcome)
    \/ \E ok \in BOOLEAN : ToSqlCommit(ok)

-----------------------------------------------------------------------------
(* process_recent_data call by call.  The pipeline calls load_data_from_db,
   assess_data_quality, clean_weather_data, create_derived_features,
   create_aggregated_features and prepare_analysis_datasets on the processor
   it was constructed with, then _store_processed_data on itself.  A call
   raises AttributeError when the processor has no such method, and may raise
   for reasons of the data or the database; every exception is caught by the
   `except Exception` of process_recent_data, which returns False. *)

\* The methods of class WeatherDataProcessor.  create_derived_features,
\* create_aggregated_features and prepare_analysis_datasets are defined at
\* module level, outside the class body.
WeatherDataProcessorMethods == {"load", "assess", "clean"}

\* The processors a pipeline is constructed with: an instance of
\* WeatherDataProcessor, or an object that has every method the pipeline calls.
Processors == {"WeatherDataProcessor", "complete"}

HasMethod(processor, stage) ==
    processor = "complete" \/ stage \in WeatherDataProcessorMethods

\* The windows load_data_from_db returns: no rows, or some.
Windows == {SubSeq(<<1, 2>>, 1, n) : n \in 0..2}

\* hours_back: the default, and the value the scheduler's hourly job passes.
HoursBack == {24, 2}

NoPipelineRun ==
    [at |-> "idle", runs |-> 0, processor |-> "none", hours_back |-> 0,
     window |-> <<>>, started |-> <<>>, fault |-> FALSE, ret |-> "none"]

\* The call after stage number i of Stages.
Proceed(i) == IF i < Len(Stages) THEN Stages[i + 1] ELSE "persist"

\* process_recent_data returns False from its except clause (or from the
\* empty check).
ReturnFalse(p, fault) == [p EXCEPT !.at = "idle", !.ret = "False", !.fault = fault]

\* process_recent_data up to the first stage: load_data_from_db, then
\* `if raw_data.empty: return False`.
ProcessRecentData(processor, hours_back, window, ok) ==
    /\ pipe.at = "idle"
    /\ pipe.runs < MaxRuns
    /\ LET p == [NoPipelineRun EXCEPT !.processor = processor,
                                      !.hours_back = hours_back,
                                      !.runs = pipe.runs + 1]
       IN  pipe' = IF ~ok THEN ReturnFalse(p, TRUE)
                   ELSE IF window = <<>> THEN ReturnFalse(p, FALSE)
                   ELSE [p EXCEPT !.at = Stages[1], !.window = window]
    /\ UNCHANGED nonPipeVars

\* The call of stage number i on the processor.
RunStage(i, ok) ==
    /\ pipe.at = Stages[i]
    /\ LET p == [pipe EXCEPT !.started = Append(@, Stages[i])]
       IN  pipe' = IF ~HasMethod(pipe.processor, Stages[i]) THEN ReturnFalse(p, pipe.fault)
                   ELSE IF ~ok THEN ReturnFalse(p, TRUE)
                   ELSE [p EXCEPT !.at = Proceed(i)]
    /\ UNCHANGED nonPipeVars

\* self._store_processed_data(...), then `return True`.
Persist(ok) ==
    /\ pipe.at = "persist"
    /\ LET p == [pipe EXCEPT !.started = Append(@, "persist")]
       IN  pipe' = IF ok THEN [p EXCEPT !.at = "idle", !.ret = "True"]
                         ELSE ReturnFalse(p, TRUE)
    /\ UNCHANGED nonPipeVars

PipeInit == pipe = NoPipelineRun

PipeNext ==
    \/ \E processor \in Processors, hours_back \in HoursBack, window \in Windows,
          ok \in BOOLEAN :
           ProcessRecentData(processor, hours_back, window, ok)
    \/ \E i \in DOMAIN Stages, ok \in BOOLEAN : RunStage(i, ok)
    \/ \E ok \in BOOLEAN : Persist(ok)

-----------------------------------------------------------------------------
(* create_derived_features: the comfort index of a row.  Temperature and wind
   speed are counted in tenths (of a degree, of a m/s), humidity in percent,
   and the index in hundredths, so that the arithmetic is exact. *)

Abs(x) == IF x < 0 THEN -x ELSE x

Clamp(lo, hi, x) == IF x < lo THEN lo ELSE IF x > hi THEN hi ELSE x

\* calculate_comfort_index: the three terms (here times 10), their weighted
\* sum (times 100), and max(0, min(100, comfort)).
calculate_comfort_index(temp, humidity, wind_speed) ==
    LET temp_comfort == 1000 - Abs(temp - 225) * 4
        humidity_comfort == 1000 - Abs(humidity - 50) * 20
        wind_comfort == 1000 - Abs(wind_speed - 20) * 10
        comfort == temp_comfort * 5 + humidity_comfort * 3 + wind_comfort * 2
    IN  Clamp(0, 10000, comfort)

\* Readings the collector accepts: temperatures from -50 to 60 degrees,
\* humidities from 0 to 100 %, wind speeds from 0 to 30 m/s.
RowTemperatures == {-500, -100, -25, 225, 230, 475, 600}

RowHumidities == {0, 20, 50, 55, 100}

RowWindSpeeds == {0, 20, 25, 120, 300}

NoRow == [temperature |-> 0, humidity |-> 0, wind_speed |-> 0, comfort_index |-> -1]

FeatureInit == enhanced = NoRow

\* enhanced_df.apply(lambda row: calculate_comfort_index(...), axis=1), for
\* one row.
ApplyComfortIndex(temp, humidity, wind_speed) ==
    /\ enhanced' = [temperature |-> temp, humidity |-> humidity,
                    wind_speed |-> wind_speed,
                    comfort_index |->
                        calculate_comfort_index(temp, humidity, wind_speed)]
    /\ UNCHANGED nonFeatureVars

FeatureNext ==
    \E temp \in RowTemperatures, humidity \in RowHumidities,
       wind_speed \in RowWindSpeeds :
        ApplyComfortIndex(temp, humidity, wind_speed)

-----------------------------------------------------------------------------
(* assess_data_quality: the data_gaps entry of the quality report.  The frame
   comes from load_data_from_db: ordered by timestamp, indexed by timestamp. *)

\* df.index of a frame: timestamps in the order of ORDER BY timestamp.
TimeIndexes ==
    {ix \in UNION {[1..n -> 0..MaxTime] : n \in 0..MaxReadings} :
        \A p \in 1..(Len(ix) - 1) : ix[p] <= ix[p + 1]}

\* df.index.to_series().diff(), without the leading NaT: the entry at
\* position p is index[p] - index[p-1], for p from the second row on.
time_diff(ix) == [p \in 2..Len(ix) |-> ix[p] - ix[p - 1]]

\* time_diff.mode()[0]: the most frequent difference, the smallest one if
\* several are equally frequent (mode() returns them sorted).
expected_interval(ix) ==
    LET d == time_diff(ix)
        Count(v) == Cardinality({p \in DOMAIN d : d[p] = v})
        Modes == {d[p] : p \in {q \in DOMAIN d : \A r \in DOMAIN d :
                                      Count(d[r]) <= Count(d[q])}}
    IN  CHOOSE m \in Modes : \A o \in Modes : m <= o

\* gaps = time_diff[time_diff > expected_interval * 2], by the positions of
\* the rows it keeps.
gaps(ix) == {p \in DOMAIN time_diff(ix) : time_diff(ix)[p] > expected_interval(ix) * 2}

NotAssessed == [assessed |-> FALSE, index |-> <<>>, raised |-> FALSE, data_gaps |-> <<>>]

GapInit == gap_report = NotAssessed

\* Lines 108-117 on a frame with the index ix.  The comprehension runs over
\* gaps.index, whose elements are the timestamps labelling the kept rows, and
\* evaluates df.index[i-1] first: a timestamp minus the integer 1, which
\* pandas refuses with a TypeError.  With no gap the comprehension is empty;
\* with fewer than two rows the block is skipped.
AssessGaps(ix) ==
    /\ gap_report' =
           [assessed |-> TRUE, index |-> ix,
            raised |-> Len(ix) > 1 /\ gaps(ix) # {},
            data_gaps |-> <<>>]
    /\ UNCHANGED nonGapVars

GapNext == \E ix \in TimeIndexes : AssessGaps(ix)

-----------------------------------------------------------------------------
(* DataQualityMonitor.check_quality_alerts.  Percentages are counted in tenths
   of a percent and durations in minutes; the message of an alert, a text
   formatted from the same numbers, is left out. *)

\* self.quality_thresholds
missing_data_percent == 100

impossible_values_percent == 10

duplicate_percent == 5

data_gap_hours == 3

RECURSIVE SumSeq(_)
SumSeq(q) == IF q = <<>> THEN 0 ELSE Head(q) + SumSeq(Tail(q))

\* The report of assess_data_quality on a frame without rows.
EmptyFrameReport ==
    [total_records |-> 0, missing_values |-> <<>>, impossible_values |-> <<>>,
     duplicates |-> 0, data_gaps |-> <<>>]

\* Reports on 1000 records.  missing_values: the 'percentage' of each column
\* with missing values; impossible_values: the count of each field with
\* impossible values; duplicates: the count of duplicated rows; data_gaps: the
\* 'duration' of each gap.  Every metric takes values below, at and above its
\* threshold.
QualityReports ==
    [total_records : {1000},
     missing_values : {<<>>, <<100>>, <<101>>, <<60, 40>>, <<60, 60>>},
     impossible_values : {<<>>, <<10>>, <<11>>, <<5, 5>>, <<5, 6>>},
     duplicates : {0, 5, 6},
     data_gaps : {<<>>, <<180>>, <<181>>, <<120, 181>>}]
        \cup {EmptyFrameReport}

NoReport == [total_records |-> -1]

Alert(type, severity) == [type |-> type, severity |-> severity]

\* check_quality_alerts: the three checks in the order of the code.  The
\* division by total_records raises ZeroDivisionError for a report on no
\* records.
check_quality_alerts(report) ==
    IF report.total_records = 0 THEN [raised |-> TRUE, alerts |-> <<>>]
    ELSE
    LET total_missing == SumSeq(report.missing_values)
        total_impossible == SumSeq(report.impossible_values)
        \* (total_impossible / total_records) * 100 > 1.0, in tenths
        impossible_high ==
            total_impossible * 1000 > impossible_values_percent * report.total_records
        large_gaps == SelectSeq(report.data_gaps,
                                LAMBDA d : d > data_gap_hours * 60)
    IN  [raised |-> FALSE,
         alerts |->
             (IF total_missing > missing_data_percent
                 THEN <<Alert("missing_data", "warning")>> ELSE <<>>)
             \o (IF impossible_high
                    THEN <<Alert("impossible_values", "error")>> ELSE <<>>)
             \o (IF large_gaps # <<>>
                    THEN <<Alert("data_gaps", "warning")>> ELSE <<>>)]

AlertInit ==
    /\ quality_report = NoReport
    /\ alerts = <<>>
    /\ apc = "idle"

\* A caller has a report and is about to call check_quality_alerts.
HaveReport(report) ==
    /\ apc = "idle"
    /\ quality_report' = report
    /\ alerts' = <<>>
    /\ apc' = "check"
    /\ UNCHANGED nonAlertVars

CheckAlerts ==
    /\ apc = "check"
    /\ LET r == check_quality_alerts(quality_report)
       IN  /\ alerts' = r.alerts
           /\ apc' = IF r.raised THEN "raised" ELSE "returned"
    /\ UNCHANGED quality_report
    /\ UNCHANGED nonAlertVars

\* The caller goes on to its next report.
NextReport ==
    /\ apc \in {"raised", "returned"}
    /\ apc' = "idle"
    /\ UNCHANGED <<quality_report, alerts>>
    /\ UNCHANGED nonAlertVars

AlertNext ==
    \/ \E report \in QualityReports : HaveReport(report)
    \/ CheckAlerts
    \/ NextReport

-----------------------------------------------------------------------------
(* Two threads calling get_current_weather on one WeatherDataCollector.  The
   object has no lock: _respect_rate_limit reads the clock and
   self.last_request_time, sleeps, and writes self.last_request_time, and the
   other thread may run between any two of these.  A call is followed up to
   its first session.get. *)

Callers == 1..MaxCallers

NotCalling == [pc |-> "idle", wake |-> 0]

RaceInit ==
    /\ tpc = [t \in Callers |-> NotCalling]
    /\ sends = <<>>

\* time.time() moves on.
Tick ==
    /\ now < min_request_interval + MaxTicks
    /\ now' = now + 1
    /\ UNCHANGED <<last_request_time, raceVars>>
    /\ UNCHANGED nonRaceVars

\* get_current_weather -> _make_api_request -> _respect_rate_limit
ThreadCall(t) ==
    /\ tpc[t].pc = "idle"
    /\ tpc' = [tpc EXCEPT ![t].pc = "limit"]
    /\ UNCHANGED <<now, last_request_time, sends>>
    /\ UNCHANGED nonRaceVars

\* time_since_last = time.time() - self.last_request_time, and the branch on
\* it: the thread is to sleep until wake, or goes on at once.
ThreadCheck(t) ==
    /\ tpc[t].pc = "limit"
    /\ LET sleep_time == RateLimitSleep(now - last_request_time)
       IN  tpc' = [tpc EXCEPT ![t] =
                      IF sleep_time > 0 THEN [pc |-> "sleep", wake |-> now + sleep_time]
                                        ELSE [pc |-> "stamp", wake |-> 0]]
    /\ UNCHANGED <<now, last_request_time, sends>>
    /\ UNCHANGED nonRaceVars

\* time.sleep(sleep_time) returns.
ThreadWake(t) ==
    /\ tpc[t].pc = "sleep"
    /\ now >= tpc[t].wake
    /\ tpc' = [tpc EXCEPT ![t] = [pc |-> "stamp", wake |-> 0]]
    /\ UNCHANGED <<now, last_request_time, sends>>
    /\ UNCHANGED nonRaceVars

\* self.last_request_time = time.time()
ThreadStamp(t) ==
    /\ tpc[t].pc = "stamp"
    /\ last_request_time' = now
    /\ tpc' = [tpc EXCEPT ![t].pc = "send"]
    /\ UNCHANGED <<now, sends>>
    /\ UNCHANGED nonRaceVars

\* self.session.get(url, ...) goes out.
ThreadSend(t) ==
    /\ tpc[t].pc = "send"
    /\ sends' = Append(sends, now)
    /\ tpc' = [tpc EXCEPT ![t].pc = "sent"]
    /\ UNCHANGED <<now, last_request_time>>
    /\ UNCHANGED nonRaceVars

RaceNext ==
    \/ Tick
    \/ \E t \in Callers : ThreadCall(t)
    \/ \E t \in Callers : ThreadCheck(t)
    \/ \E t \in Callers : ThreadWake(t)
    \/ \E t \in Callers : ThreadStamp(t)
    \/ \E t \in Callers : ThreadSend(t)

Init ==
    /\ ClientInit /\ DbInit /\ CollectInit /\ SchedInit /\ StoreInit
    /\ AlertInit /\ RaceInit /\ PipeInit /\ FeatureInit /\ GapInit

SpecStore == Init /\ [][StoreNext]_vars

\* A thread that is inside an operation goes on: the operating system runs
\* it, and a statement waiting for the lock gets it or gives up after the
\* timeout.
CollectorStep ==
    \/ \E r \in StoreRows, outcome \in {"ok", "connect", "error", "locked"} :
           CollectorExecute(r, outcome)
    \/ \E ok \in BOOLEAN : CollectorCommit(ok)

PipelineStep ==
    \/ \E outcome \in {"ok", "connect", "drop", "create", "insert", "locked"} :
           ToSqlInsert(outcome)
    \/ \E ok \in BOOLEAN : ToSqlCommit(ok)

SpecStoreFair ==
    SpecStore /\ WF_vars(CollectorStep) /\ WF_vars(PipelineStep)

SpecAlerts == Init /\ [][AlertNext]_vars

SpecRace == Init /\ [][RaceNext]_vars

SpecPipe == Init /\ [][PipeNext]_vars

SpecFeatures == Init /\ [][FeatureNext]_vars

SpecGaps == Init /\ [][GapNext]_vars

SpecClient == Init /\ [][ClientNext]_vars

SpecCollect == Init /\ [][CollectNext]_vars

SpecSched == Init /\ [][SchedNext]_vars

\* Every started thread keeps running, and every task returns or raises.
SpecSchedFair == SpecSched /\ \A t \in 1..MaxThreads : WF_vars(ThreadStep(t))

-----------------------------------------------------------------------------
(* Claims about WeatherDataCollector, checked under SpecClient *)

NumReq(evs) == Cardinality({i \in DOMAIN evs : evs[i] = Req})

Got(evs, e) == \E i \in DOMAIN evs : evs[i] = e

\* C1: any two consecutive HTTP requests sent by one client instance are at
\* least min_request_interval apart, across retries and across calls.
C1_RequestsSeparated == lastGap = -1 \/ lastGap >= min_request_interval

\* C2: one _make_api_request call sends at most max_retries (3) HTTP requests
\* whatever the responses are, and a call none of whose attempts got a 200
\* returns None.
C2_AtMostThreeRequestsThenNone ==
    /\ NumReq(events) <= max_retries
    /\ (cpc = "ret" /\ ~Got(events, Resp(200))) => raw_data = None

\* A call whose three attempts failed in the three ways (429, other status,
\* network exception) and which has returned None.
C2_Witness ==
    /\ cpc = "ret"
    /\ NumReq(events) = max_retries
    /\ Got(events, Resp(429)) /\ Got(events, Resp(500)) /\ Got(events, Exc)
    /\ raw_data = None

\* C10: a 401 on any attempt ends the call at once: it is the last thing the
\* call does (no request and no sleep follows it) and the caller gets None.
C10_401FailsImmediately ==
    \A i \in DOMAIN events :
        events[i] = Resp(401) =>
            /\ i = Len(events)
            /\ cpc \in {"ret", "idle"}
            /\ raw_data = None
            /\ result = None

\* A call that got its 401 on a retry (after an earlier failed attempt) and
\* has returned to its caller.
C10_Witness ==
    /\ cpc = "idle"
    /\ calls > 0
    /\ NumReq(events) >= 2
    /\ events[Len(events)] = Resp(401)
    /\ result = None

\* The event after position i of the current call's log, if there is one.
Follows(i, e) == i + 1 <= Len(events) /\ events[i + 1] = e

\* C11 as stated: every 429 of a call, on any attempt, is followed by a 60 s
\* sleep and then by a further request (sent, or about to be sent).
C11_Every429Retried ==
    \A i \in DOMAIN events :
        events[i] = Resp(429) =>
            /\ Follows(i, Sleep(RateLimitCooldown))
            /\ IF i + 2 <= Len(events) THEN events[i + 2] = Req ELSE cpc = "send"

\* C11 as amended: every 429 is followed by the 60 s sleep and by no backoff
\* sleep; after the sleep comes a further request when the 429 answered the
\* first or second request of the call, and the return of None when it
\* answered the third.
C11_429RetriedWhileAttemptsRemain ==
    \A i \in DOMAIN events :
        events[i] = Resp(429) =>
            /\ Follows(i, Sleep(RateLimitCooldown))
            /\ IF i + 2 <= Len(events) THEN events[i + 2] = Req
               ELSE IF NumReq(SubSeq(events, 1, i)) < 3 THEN cpc = "send"
               ELSE cpc \in {"ret", "idle"} /\ raw_data = None /\ result = None

\* A call that met a 429 on its first request and retried, then a 429 on its
\* third request and gave up after the cooldown.
C11_Witness ==
    /\ cpc = "ret"
    /\ NumReq(events) = 3
    /\ \E i \in DOMAIN events :
           /\ events[i] = Resp(429)
           /\ NumReq(SubSeq(events, 1, i)) = 1
           /\ Follows(i + 1, Req)
    /\ events[Len(events) - 1] = Resp(429)
    /\ events[Len(events)] = Sleep(RateLimitCooldown)

\* What the requests of the current call were answered with, in order.
Answers(evs) == SelectSeq(evs, LAMBDA e : e[1] \in {"resp", "exc"})

\* A complete body with temperature in [-50, 60] and humidity in [0, 100] %.
InRangeBody(raw) ==
    /\ raw \in Bodies
    /\ raw.kind = "ok"
    /\ -50 <= raw.temp /\ raw.temp <= 60
    /\ 0 <= raw.hum /\ raw.hum <= 1000

FirstThrottledThenValid ==
    /\ calls > 0
    /\ Len(Answers(events)) >= 2
    /\ Answers(events)[1] = Resp(429)
    /\ Answers(events)[2] = Resp(200)
    /\ InRangeBody(raw_data)

\* C12: a get_current_weather call whose first response is 429 and whose
\* second is 200 with a valid in-range body sleeps 60 s between them, sends
\* exactly 2 requests and returns the reading made from that body.
C12_ThrottledThenSuccess ==
    FirstThrottledThenValid =>
        /\ NumReq(events) = 2
        /\ \E i \in DOMAIN events :
               /\ events[i] = Resp(429)
               /\ Follows(i, Sleep(60))
               /\ Follows(i + 1, Req)
               /\ Follows(i + 2, Resp(200))
        /\ cpc \in {"ret", "idle"}
        /\ cpc = "idle" =>
               result = [tag |-> "reading", temperature |-> raw_data.temp,
                         humidity |-> raw_data.hum \div 10]

\* Such a call has returned its reading to the caller.
C12_Witness ==
    /\ cpc = "idle"
    /\ FirstThrottledThenValid
    /\ result.tag = "reading"

\* An attempt that failed transiently: a status other than 200, 429 and 401,
\* or a network exception.
Transient(e) == e \in {Resp(500), Exc}

\* C21: between consecutive attempts of one call the client waits by the
\* backoff schedule 1 s, 2 s, 4 s: when the k-th attempt of the call failed
\* transiently and an attempt follows it, the wait between the two is the
\* k-th element of the schedule (no wait follows the last attempt).
C21_BackoffSchedule ==
    \A i \in DOMAIN events :
        Transient(events[i]) =>
            LET k == NumReq(SubSeq(events, 1, i))
            IN  IF k < 3
                   THEN /\ Follows(i, Sleep(<<1, 2, 4>>[k]))
                        /\ IF i + 2 <= Len(events) THEN events[i + 2] = Req
                                                   ELSE cpc = "send"
                   ELSE /\ i = Len(events)
                        /\ cpc \in {"ret", "idle"}

\* A call whose three attempts failed transiently, with the waits of 1 s and
\* 2 s between them, and which has given up.
C21_Witness ==
    /\ cpc = "ret"
    /\ events = <<Req, Resp(500), Sleep(1), Req, Exc, Sleep(2), Req, Resp(500)>>

-----------------------------------------------------------------------------
(* Claims about the orchestrator and the store, checked under SpecCollect *)

RowInRange(r) ==
    /\ -50 <= r.temperature /\ r.temperature <= 60
    /\ 0 <= r.humidity /\ r.humidity <= 100

OutOfRangeBody(raw) ==
    raw \in {Body(1000, 500), Body(20, 1500)}

\* C3: every row of weather_readings, and so every row get_recent_readings
\* returns, has temperature in [-50, 60] and humidity in [0, 100]; a response
\* with temperature 1000 or humidity 150 is not stored.
C3_StoredReadingsInRange ==
    /\ \A i \in DOMAIN weather_readings : RowInRange(weather_readings[i])
    /\ \A p \in Places :
           \A i \in DOMAIN get_recent_readings(p[1], p[2]) :
               RowInRange(get_recent_readings(p[1], p[2])[i])
    /\ (attempts > 0 /\ OutOfRangeBody(last.raw)) => ~last.stored

\* A humidity-150 response has just been discarded (logged as api_error, no
\* row written) while an earlier accepted reading is in the table.
C3_Witness ==
    /\ attempts > 0
    /\ last.raw = Body(20, 1500)
    /\ ~last.stored
    /\ Len(weather_readings) = 1
    /\ get_recent_readings(weather_readings[1].city, weather_readings[1].country) # <<>>
    /\ collection_log # <<>>
    /\ collection_log[Len(collection_log)].status = "api_error"

\* C4 as stated: every collect_for_location call appends exactly one row to
\* collection_log, whatever the outcome, a failed log write included.
C4_ExactlyOneLogRow ==
    [][attempts' = attempts + 1 =>
          Len(collection_log') = Len(collection_log) + 1]_vars

\* C4 as amended: a collect_for_location call appends exactly one row to
\* collection_log when it returns normally (also when its first log write
\* failed and the one in the exception handler succeeded) and no row when the
\* log write in the exception handler fails, in which case the call raises;
\* rows already in the log are left as they are.
C4_OneLogRowUnlessRaised ==
    [][attempts' = attempts + 1 =>
          /\ Len(collection_log') =
                 Len(collection_log) + (IF last'.raised THEN 0 ELSE 1)
          /\ SubSeq(collection_log', 1, Len(collection_log)) = collection_log]_vars

\* A call that stored its reading, lost its first log write and still left
\* exactly one row, written by the exception handler.
C4_Witness ==
    /\ attempts > 0
    /\ last.stored /\ last.fault /\ ~last.raised
    /\ Len(collection_log) = attempts
    /\ collection_log[Len(collection_log)].status = "error"

RunLogRows == Len(collection_log) - run.log0

RunReadingRows == Len(weather_readings) - run.readings0

C6_CollectAllNeverRaises == ~raised

\* C22: in one collect_all_locations run the locations active at its start are
\* attempted once each, in listing order, and no others: the run starts on
\* the active rows in rowid order, every attempt is for the first location
\* not yet attempted, and whatever the attempt met (no data, a rejected
\* reading, a failed write, an exception) the locations after it remain to
\* be attempted.
C22_EveryActiveLocationAttempted ==
    [][/\ (opc = "idle" /\ opc' = "run") =>
              todo' = SelectSeq(locations, LAMBDA l : l.is_active)
       /\ (attempts' = attempts + 1) =>
              (todo # <<>> /\ todo' = Tail(todo))]_vars

\* The status that names the outcome of the last collect_for_location call.
OutcomeStatus ==
    LET weather_data == get_current_weather_result(last.raw)
    IN  IF last.stored THEN "success"
        ELSE IF weather_data = Raised THEN "error"
        ELSE IF weather_data = None THEN "api_error"
        ELSE "storage_error"

LastLogStatus == collection_log[Len(collection_log)].status

\* C23: the log entry a collect_for_location call writes carries the status of
\* the call's outcome: 'success' exactly when the reading was stored,
\* 'storage_error' when the client returned a reading and the store returned
\* False, 'api_error' when the client returned no data, 'error' when an
\* exception was raised (by the client, or by a write of a call that stored
\* nothing).
C23_StatusReflectsOutcome ==
    (attempts > 0 /\ ~last.raised) =>
        \/ LastLogStatus = OutcomeStatus
        \/ (~last.stored /\ last.fault /\ LastLogStatus = "error")

\* C28: the rows of collection_log with status 'success' are as many as the
\* rows of weather_readings: a reading is stored if and only if its attempt
\* is logged as 'success'.
C28_SuccessRowsMatchReadings ==
    Len(SelectSeq(collection_log, LAMBDA r : r.status = "success"))
        = Len(weather_readings)

\* C15: add_location is idempotent.  The locations table never holds two rows
\* for one (city, country) pair; an add_location call for a pair that is
\* already in the table returns True, as every call does that meets no
\* storage error, and leaves the table as it was.
C15_AddLocationIdempotent ==
    /\ \A p \in Places : Cardinality(RowsOf(locations, p[1], p[2])) <= 1
    /\ (added.called /\ added.ok) => added.ret
    /\ (added.called /\ added.present) => added.unchanged

\* The last call added a pair that was in the table already, with another
\* pair beside it.
C15_Witness ==
    /\ added.called /\ added.ok /\ added.present /\ added.ret /\ added.unchanged
    /\ Len(locations) = 2

-----------------------------------------------------------------------------
(* Claims about the units of work on the database file, checked under
   SpecStore *)

\* C13: store_weather_reading fails closed: when its unit of work meets an
\* error (the connection, the INSERT or the commit fails, or the database stays
\* locked) it returns False, raises nothing, and weather_readings is as it was
\* before the call.
C13_StoreFailsClosed ==
    (sop.name = "store_weather_reading" /\ sop.failed) =>
        /\ sop.ret = FALSE
        /\ ~sop.raised
        /\ sop.unchanged

\* The second store of a batch has failed, the first reading is still the only
\* row, and the collector goes on to log 'storage_error'.
C13_Witness ==
    /\ sop.name = "store_weather_reading"
    /\ sop.failed
    /\ sop.unchanged
    /\ Len(weather_readings) = 1
    /\ spc.at = "log" /\ spc.status = "storage_error"

C16_NoPartialPersistence ==
    ~prun.ret => ~prun.changed

\* Every derived table holds exactly the frame computed from raw.
AllReplacedFrom(tables, raw) ==
    \A n \in DerivedNames :
        tables[n] = [exists |-> TRUE, rows |-> <<Frame(n, raw)>>]

\* C17: when process_recent_data has run twice in a row over the same loaded
\* readings, both runs returning True, the derived tables after the second
\* run are those left by the first.
C17_Idempotent ==
    prun.repeat =>
        /\ prun.same
        /\ ppc.at = "idle" => derived = prun.after

\* Two such runs have been made, over tables that existed before the second,
\* and every table holds the one frame of the second run.
C17_Witness ==
    /\ ppc.at = "idle"
    /\ prun.repeat /\ prun.same
    /\ ~prun.changed
    /\ AllReplacedFrom(derived, prun.raw)

\* C20: collection and processing running at the same time do not deadlock:
\* a collect_all_locations run that has begun ends, a process_recent_data run
\* that has begun ends, and a connection that is open gets closed.
C20_NoDeadlock ==
    /\ (spc.at # "idle") ~> (spc.at = "idle")
    /\ (ppc.at # "idle") ~> (ppc.at = "idle")
    /\ \A a \in Actors : conn[a].open ~> ~conn[a].open

\* The pipeline is about to write a table while the collector's transaction
\* holds the lock.
C20_Witness ==
    /\ spc.phase = "commit"
    /\ writeLock = "collector"
    /\ ppc.at = "to_sql"
    /\ ppc.k > 1

-----------------------------------------------------------------------------
(* Claims about the stages of process_recent_data, checked under SpecPipe *)

IsPrefix(q, r) == Len(q) <= Len(r) /\ q = SubSeq(r, 1, Len(q))

\* C24: in a process_recent_data run over a non-empty window the stages begin
\* in the order assess, clean, derive, aggregate, persist, each after the one
\* before it has completed, and a run in which nothing makes a stage fail
\* reaches persist and returns True.
C24_StagesInOrderThenPersist ==
    /\ IsPrefix(SelectSeq(pipe.started, LAMBDA st : st # "prepare"),
                <<"assess", "clean", "derive", "aggregate", "persist">>)
    /\ (pipe.at = "idle" /\ pipe.window # <<>> /\ ~pipe.fault) =>
           /\ pipe.ret = "True"
           /\ pipe.started[Len(pipe.started)] = "persist"

-----------------------------------------------------------------------------
(* Claims about the derived features, checked under SpecFeatures *)

\* x limited to [0, 100], in tenths.
Limited(x) == IF x < 0 THEN 0 ELSE IF x > 1000 THEN 1000 ELSE x

\* C25: the comfort index is 0.5*T + 0.3*H + 0.2*W limited to [0, 100], where
\* T = 100 - 4*|temp - 22.5|, H = 100 - 2*|humidity - 50| and
\* W = 100 - 10*|wind - 2| are each limited to [0, 100] before they are
\* combined; it is 100 at temperature 22.5, humidity 50, wind 2.
C25_ComfortIndex ==
    enhanced # NoRow =>
        LET dt == IF enhanced.temperature >= 225 THEN enhanced.temperature - 225
                                                 ELSE 225 - enhanced.temperature
            dh == IF enhanced.humidity >= 50 THEN enhanced.humidity - 50
                                             ELSE 50 - enhanced.humidity
            dw == IF enhanced.wind_speed >= 20 THEN enhanced.wind_speed - 20
                                               ELSE 20 - enhanced.wind_speed
            sum == 5 * Limited(1000 - 4 * dt) + 3 * Limited(1000 - 20 * dh)
                     + 2 * Limited(1000 - 10 * dw)
        IN  /\ enhanced.comfort_index = sum
            /\ (dt = 0 /\ dh = 0 /\ dw = 0) => enhanced.comfort_index = 10000

-----------------------------------------------------------------------------
(* Claims about the gap detection, checked under SpecGaps *)

\* The pairs of consecutive readings (by the position of the later one) whose
\* spacing exceeds twice the modal spacing d.
Oversized(ix, d) == {p \in 2..Len(ix) : ix[p] - ix[p - 1] > 2 * d}

\* The positions in a set, in increasing order.
RECURSIVE Ascending(_)
Ascending(S) ==
    IF S = {} THEN <<>>
    ELSE LET m == CHOOSE x \in S : \A y \in S : x <= y
         IN  <<m>> \o Ascending(S \ {m})

\* C26: for a time-ordered set of at least two readings, data_gaps holds
\* exactly one entry for each pair of consecutive readings whose spacing
\* exceeds twice the modal inter-reading interval, with start and end the two
\* timestamps of the pair and duration their difference, and no other entry.
C26_GapsReported ==
    (gap_report.assessed /\ Len(gap_report.index) >= 2) =>
        LET ix == gap_report.index
            over == Ascending(Oversized(ix, expected_interval(ix)))
        IN  /\ ~gap_report.raised
            /\ gap_report.data_gaps =
                   [k \in DOMAIN over |->
                       [start |-> ix[over[k] - 1], end |-> ix[over[k]],
                        duration |-> ix[over[k]] - ix[over[k] - 1]]]

\* Without an oversized interval the report has no gap entry.
C26_NoGapNoEntry ==
    (gap_report.assessed /\ ~gap_report.raised) => gap_report.data_gaps = <<>>

-----------------------------------------------------------------------------
(* Claims about check_quality_alerts, checked under SpecAlerts *)

AlertTypes == {alerts[i].type : i \in DOMAIN alerts}

Exceeds(q, limit) == \E i \in DOMAIN q : q[i] > limit

\* C18: check_quality_alerts emits the alert of a metric exactly when the
\* report exceeds the metric's threshold: missing data above 10 %, impossible
\* values above 1 %, duplicates above 0.5 %, a gap longer than 3 hours; and
\* no alert for a metric at or below its threshold.
C18_AlertsMatchThresholds ==
    apc = "returned" =>
        /\ "missing_data" \in AlertTypes
              <=> SumSeq(quality_report.missing_values) > 100
        /\ "impossible_values" \in AlertTypes
              <=> SumSeq(quality_report.impossible_values) * 100
                    > 1 * quality_report.total_records
        /\ "duplicates" \in AlertTypes
              <=> quality_report.duplicates * 1000
                    > 5 * quality_report.total_records
        /\ "data_gaps" \in AlertTypes
              <=> Exceeds(quality_report.data_gaps, 180)

\* The same without the duplicates: the three metrics the code looks at.
C18_CheckedMetricsMatch ==
    apc = "returned" =>
        /\ "missing_data" \in AlertTypes
              <=> SumSeq(quality_report.missing_values) > 100
        /\ "impossible_values" \in AlertTypes
              <=> SumSeq(quality_report.impossible_values) * 100
                    > 1 * quality_report.total_records
        /\ "data_gaps" \in AlertTypes
              <=> Exceeds(quality_report.data_gaps, 180)
        /\ Len(alerts) = Cardinality(AlertTypes)

-----------------------------------------------------------------------------
(* Claims about two threads on one collector, checked under SpecRace *)

\* C19: two threads calling the same collector cannot bypass the throttle:
\* any two session.get calls are at least min_request_interval apart.
C19_ThrottleAcrossThreads ==
    \A i, j \in DOMAIN sends :
        i < j => sends[j] - sends[i] >= min_request_interval

-----------------------------------------------------------------------------
(* Claims about the scheduler loops, checked under SpecSched *)

Alive(owner) == {t \in DOMAIN threads : threads[t].owner = owner /\ threads[t].pc # "exited"}

InTask == {t \in DOMAIN threads : threads[t].pc = "task"}

\* C7: once stop has returned (and start has not been called again), the
\* background loop of that scheduler starts no scheduled task.
C7_NoTaskAfterStop ==
    [][\A t \in DOMAIN threads :
          (stopReturned[threads[t].owner] /\ threads'[t].pc = "task")
              => threads[t].pc = "task"]_vars

\* C8: at most one background loop of each scheduler object is alive.
C8_AtMostOneLoop == \A o \in Owners : Cardinality(Alive(o)) <= 1

\* C9: at most one scheduled task is running at any instant.
C9_NoOverlap == Cardinality(InTask) <= 1

\* Thread t begins a run of job j in this step.
Begins(t, j) ==
    /\ threads[t].pc = "pass"
    /\ threads'[t].pc = "task"
    /\ threads'[t].job = j

\* C27: start_scheduled_collection triggers one collection run immediately,
\* exactly once, besides the periodic one: when the periodic job of a start
\* is run for the first time (one interval after the start), the run tagged
\* 'immediate' of the same start has taken place, and it takes place only
\* once.
C27_ImmediateRunOnce ==
    [][\A t \in DOMAIN threads, j \in DOMAIN jobs :
          Begins(t, j) =>
              /\ jobs[j] = [func |-> "collect_all_locations", tag |-> ""]
                     => (j + 1) \in immediate_ran
              /\ jobs[j].tag = "immediate" => j \notin immediate_ran]_vars

\* The scheduler whose start registered job j.
Registrant(j) ==
    IF jobs[j].func = "collect_all_locations" THEN "collection" ELSE "processing"

\* C29: stopping one scheduler leaves the other unchanged: the stop of one
\* removes none of the jobs registered by the start of the other.
C29_StopLeavesOtherScheduler ==
    [][\A o \in Owners :
          (is_running[o] /\ Stop(o))
              => {j \in registry : Registrant(j) # o} \subseteq registry']_vars

\* stop has just been called on the scheduler whose current thread is t.
StopCalledOn(t) ==
    /\ t \in DOMAIN threads
    /\ mpc = [op |-> "join", owner |-> threads[t].owner]
    /\ thread_ref[threads[t].owner] = t

\* C30: after stop is called, the loop started by the matching start
\* eventually exits, provided its current task terminates, also when start
\* is called again before the loop has seen the cleared flag.
C30_StoppedLoopExits ==
    \A t \in 1..MaxThreads :
        StopCalledOn(t) ~> (t \in DOMAIN threads /\ threads[t].pc = "exited")

====
